---------------------------- MODULE Spec2Model ----------------------------
(***************************************************************************)
(* Model of the content update engine of ai_manager (content_updater.py):  *)
(* the payload check, the patch engine, the backup store and the update    *)
(* and restore flows, with the disk (the live file site.json and the       *)
(* .backups directory) as the state.                                       *)
(***************************************************************************)
EXTENDS Naturals, Integers, Sequences, FiniteSets, TLC

(***************************************************************************)
(* JSON values.  Python's json module yields dict, list, str, int, bool    *)
(* and None; a value is tagged with its type so that isinstance() is a     *)
(* test of the tag.                                                        *)
(***************************************************************************)
JNull == [t |-> "null", v |-> 0]
JStr(s) == [t |-> "str", v |-> s]
JNum(n) == [t |-> "num", v |-> n]
JArr(seq) == [t |-> "arr", v |-> seq]
JObj(f) == [t |-> "obj", v |-> f]
EmptyObj == JObj([k \in {} |-> JNull])
EmptyArr == JArr(<< >>)

IsDict(x) == x.t = "obj"
IsList(x) == x.t = "arr"
IsStrV(x) == x.t = "str"
\* list and dict are unhashable: `x in {...}` raises TypeError for them
Hashable(x) == x.t \notin {"arr", "obj"}

Has(o, k) == k \in DOMAIN o.v
\* dict.get(k) / dict.get(k, default)
Get(o, k) == IF k \in DOMAIN o.v THEN o.v[k] ELSE JNull
GetOr(o, k, d) == IF k \in DOMAIN o.v THEN o.v[k] ELSE d
\* d[k] = x on a copy of d
Put(o, k, x) == JObj([j \in DOMAIN o.v \cup {k} |-> IF j = k THEN x ELSE o.v[j]])

(***************************************************************************)
(* Outcomes of a computation that may raise.                               *)
(***************************************************************************)
Ok(d) == [ok |-> TRUE, exc |-> "", msg |-> "", doc |-> d]
Raise(m) == [ok |-> FALSE, exc |-> "ContentUpdateError", msg |-> m, doc |-> JNull]
RaiseOther(e) == [ok |-> FALSE, exc |-> e, msg |-> "", doc |-> JNull]

\* dict(x): a copy of a dict; an empty iterable gives {}; anything else raises
CanDict(x) == IsDict(x) \/ x = EmptyArr \/ x = JStr("")
AsDict(x) == IF IsDict(x) THEN x ELSE EmptyObj
\* list(x): a copy of a list; a dict gives its keys, "" gives []; a number,
\* a bool or None raises TypeError.  (Non-empty strings, which list() splits
\* into characters, are kept out of array positions in the inputs.)
CanList(x) == IsList(x) \/ x = JStr("") \/ x = EmptyObj
AsList(x) == IF IsList(x) THEN x.v ELSE << >>

Sections == {"bio", "services", "projects", "contact"}
Operations == {"replace", "append", "delete"}


(***************************************************************************)
(* _coerce_payload: the shape check of an update payload.                  *)
(***************************************************************************)
AllowedKeys == {"file", "operation", "content"}

\* _coerce_payload without the test for unexpected keys
_coerce_payload_any_keys(payload) ==
    IF ~IsDict(payload) THEN Raise("Payload must be an object")
    ELSE IF Get(payload, "file") # JStr("site.json") THEN Raise("Invalid or unsupported file")
    ELSE IF ~Hashable(Get(payload, "operation")) THEN RaiseOther("TypeError")
    ELSE IF ~(IsStrV(Get(payload, "operation")) /\ Get(payload, "operation").v \in Operations)
         THEN Raise("Invalid operation")
    ELSE IF ~IsDict(Get(payload, "content")) THEN Raise("content must be an object")
    ELSE Ok(JObj([file |-> Get(payload, "file"),
                  operation |-> Get(payload, "operation"),
                  content |-> Get(payload, "content")]))

_coerce_payload(payload) ==
    IF ~IsDict(payload) THEN Raise("Payload must be an object")
    ELSE IF DOMAIN payload.v \ AllowedKeys # {} THEN Raise("Unexpected payload keys")
    ELSE IF Get(payload, "file") # JStr("site.json") THEN Raise("Invalid or unsupported file")
    ELSE IF ~Hashable(Get(payload, "operation")) THEN RaiseOther("TypeError")
    ELSE IF ~(IsStrV(Get(payload, "operation")) /\ Get(payload, "operation").v \in Operations)
         THEN Raise("Invalid operation")
    ELSE IF ~IsDict(Get(payload, "content")) THEN Raise("content must be an object")
    ELSE Ok(JObj([file |-> Get(payload, "file"),
                  operation |-> Get(payload, "operation"),
                  content |-> Get(payload, "content")]))

(***************************************************************************)
(* The patch engine: _append, _delete, _apply_operation.  Each builds its  *)
(* result from copies (dict(...), list(...)) and returns it or raises.     *)
(***************************************************************************)
\* `section not in {"bio", ...}` and `isinstance(data, dict)`
PatchHead(patch, what) ==
    IF ~Hashable(Get(patch, "section")) THEN RaiseOther("TypeError")
    ELSE IF ~(IsStrV(Get(patch, "section")) /\ Get(patch, "section").v \in Sections)
         THEN Raise(what \o " requires 'section' (bio|services|projects|contact)")
    ELSE IF ~IsDict(Get(patch, "data")) THEN Raise(what \o " requires 'data' object")
    ELSE Ok(JNull)

\* bio append, one of the array keys: bio[key] = list(bio.get(key, [])) + data[key]
AppendBioArray(r, data, key) ==
    IF ~r.ok \/ ~Has(data, key) THEN r
    ELSE IF ~IsList(data.v[key]) THEN Raise("bio append requires '" \o key \o "' as array")
    ELSE IF ~CanList(GetOr(r.doc, key, EmptyArr)) THEN RaiseOther("TypeError")
    ELSE Ok(Put(r.doc, key, JArr(AsList(GetOr(r.doc, key, EmptyArr)) \o data.v[key].v)))

\* bio append, one of the scalar keys: overwritten when present and a string
AppendBioScalar(r, data, key) ==
    IF r.ok /\ Has(data, key) /\ IsStrV(data.v[key])
    THEN Ok(Put(r.doc, key, data.v[key]))
    ELSE r

AppendBio(updated, data) ==
    IF ~CanDict(GetOr(updated, "bio", EmptyObj)) THEN RaiseOther("TypeError")
    ELSE LET b0 == Ok(AsDict(GetOr(updated, "bio", EmptyObj)))
             b1 == AppendBioArray(b0, data, "summary")
             b2 == AppendBioArray(b1, data, "highlights")
             b3 == AppendBioScalar(b2, data, "name")
             b4 == AppendBioScalar(b3, data, "title")
             b5 == AppendBioScalar(b4, data, "location")
         IN  IF b5.ok THEN Ok(Put(updated, "bio", b5.doc)) ELSE b5

\* services / projects append that leaves out the new entries the array already holds
AppendBlockDedup(updated, section, data) ==
    IF ~CanDict(GetOr(updated, section, EmptyObj)) THEN RaiseOther("TypeError")
    ELSE LET block0 == AsDict(GetOr(updated, section, EmptyObj))
             block == IF Has(data, "intro") /\ IsStrV(data.v["intro"])
                      THEN Put(block0, "intro", data.v["intro"])
                      ELSE block0
         IN  IF ~Has(data, section)
             THEN Raise(section \o " append requires '" \o section \o "' array in data")
             ELSE IF ~IsList(data.v[section]) THEN Raise("'" \o section \o "' must be an array")
             ELSE IF ~CanList(GetOr(block, section, EmptyArr)) THEN RaiseOther("TypeError")
             ELSE LET old == AsList(GetOr(block, section, EmptyArr))
                      fresh(x) == \A i \in 1..Len(old) : old[i] # x
                  IN  Ok(Put(updated, section,
                             Put(block, section,
                                 JArr(old \o SelectSeq(data.v[section].v, fresh)))))

\* services / projects append; array_key is the section's own name
AppendBlock(updated, section, data) ==
    IF ~CanDict(GetOr(updated, section, EmptyObj)) THEN RaiseOther("TypeError")
    ELSE LET block0 == AsDict(GetOr(updated, section, EmptyObj))
             block == IF Has(data, "intro") /\ IsStrV(data.v["intro"])
                      THEN Put(block0, "intro", data.v["intro"])
                      ELSE block0
         IN  IF ~Has(data, section)
             THEN Raise(section \o " append requires '" \o section \o "' array in data")
             ELSE IF ~IsList(data.v[section]) THEN Raise("'" \o section \o "' must be an array")
             ELSE IF ~CanList(GetOr(block, section, EmptyArr)) THEN RaiseOther("TypeError")
             ELSE Ok(Put(updated, section,
                         Put(block, section,
                             JArr(AsList(GetOr(block, section, EmptyArr)) \o data.v[section].v))))

AppendContact(updated, data) ==
    IF ~CanDict(GetOr(updated, "contact", EmptyObj)) THEN RaiseOther("TypeError")
    ELSE IF \E k \in DOMAIN data.v : ~IsStrV(data.v[k]) THEN Raise("contact fields must be strings")
    ELSE LET contact == AsDict(GetOr(updated, "contact", EmptyObj))
         IN  Ok(Put(updated, "contact",
                    JObj([k \in DOMAIN contact.v \cup DOMAIN data.v |->
                            IF k \in DOMAIN data.v THEN data.v[k] ELSE contact.v[k]])))

_append(file_name, current, patch) ==
    IF file_name # "site.json" THEN Raise("Invalid or unsupported file")
    ELSE IF ~PatchHead(patch, "append").ok THEN PatchHead(patch, "append")
    ELSE LET section == Get(patch, "section").v
             data == Get(patch, "data")
         IN  CASE section = "bio" -> AppendBio(current, data)
               [] section \in {"services", "projects"} -> AppendBlock(current, section, data)
               [] section = "contact" -> AppendContact(current, data)

\* a filter that drops only the first entry to drop
RECURSIVE RejectFirst(_, _)
RejectFirst(items, drop) ==
    IF items = << >> THEN << >>
    ELSE IF Head(items) \in drop THEN Tail(items)
    ELSE <<Head(items)>> \o RejectFirst(Tail(items), drop)

\* [x for x in items if not pred(x)]
RECURSIVE Reject(_, _)
Reject(items, drop) ==
    IF items = << >> THEN << >>
    ELSE IF Head(items) \in drop THEN Reject(Tail(items), drop)
    ELSE <<Head(items)>> \o Reject(Tail(items), drop)

SeqRange(s) == {s[i] : i \in 1..Len(s)}

\* the delete targets: data.name wins over data.names
HasTargets(data) ==
    \/ Has(data, "name") /\ IsStrV(data.v["name"])
    \/ Has(data, "names") /\ IsList(data.v["names"])
                          /\ \A n \in SeqRange(data.v["names"].v) : IsStrV(n)

\* the targets taken from both forms: the name and the names
TargetsOfBoth(data) ==
    (IF Has(data, "name") /\ IsStrV(data.v["name"]) THEN {data.v["name"]} ELSE {})
    \cup (IF Has(data, "names") /\ IsList(data.v["names"])
          THEN SeqRange(data.v["names"].v)
          ELSE {})

Targets(data) ==
    IF Has(data, "name") /\ IsStrV(data.v["name"]) THEN {data.v["name"]}
    ELSE SeqRange(data.v["names"].v)

\* services / projects delete without the test for a target: no target, nothing deleted
DeleteBlockUnchecked(updated, section, data) ==
    IF ~CanDict(GetOr(updated, section, EmptyObj)) THEN RaiseOther("TypeError")
    ELSE LET block == AsDict(GetOr(updated, section, EmptyObj))
             items == GetOr(block, section, EmptyArr)
             names == IF HasTargets(data) THEN Targets(data) ELSE {}
         IN  IF ~CanList(items) THEN RaiseOther("TypeError")
             ELSE IF \E it \in SeqRange(AsList(items)) : IsDict(it) /\ ~Hashable(Get(it, "name"))
                  THEN RaiseOther("TypeError")
             ELSE Ok(Put(updated, section,
                         Put(block, section,
                             JArr(Reject(AsList(items),
                                         {it \in SeqRange(AsList(items)) :
                                            IsDict(it) /\ Get(it, "name") \in names})))))

DeleteBlock(updated, section, data) ==
    IF ~CanDict(GetOr(updated, section, EmptyObj)) THEN RaiseOther("TypeError")
    ELSE LET block == AsDict(GetOr(updated, section, EmptyObj))
             items == GetOr(block, section, EmptyArr)
         IN  IF ~HasTargets(data)
             THEN Raise("delete requires data.name (string) or data.names (string[])")
             ELSE IF ~CanList(items) THEN RaiseOther("TypeError")
             \* item.get("name") in set(names) raises when the name is a list or a dict
             ELSE IF \E it \in SeqRange(AsList(items)) : IsDict(it) /\ ~Hashable(Get(it, "name"))
                  THEN RaiseOther("TypeError")
             ELSE Ok(Put(updated, section,
                         Put(block, section,
                             JArr(Reject(AsList(items),
                                         {it \in SeqRange(AsList(items)) :
                                            IsDict(it) /\ Get(it, "name") \in Targets(data)})))))

DeleteBioArray(r, data, key) ==
    IF ~r.ok \/ ~Has(data, key) THEN r
    ELSE IF ~IsList(data.v[key]) \/ \E s \in SeqRange(AsList(data.v[key])) : ~IsStrV(s)
         THEN Raise("bio delete requires data." \o key \o " as string[]")
    ELSE IF ~CanList(GetOr(r.doc, key, EmptyArr)) THEN RaiseOther("TypeError")
    ELSE IF \E s \in SeqRange(AsList(GetOr(r.doc, key, EmptyArr))) : ~Hashable(s)
         THEN RaiseOther("TypeError")
    ELSE Ok(Put(r.doc, key,
                JArr(Reject(AsList(GetOr(r.doc, key, EmptyArr)), SeqRange(data.v[key].v)))))

\* bio delete that returns a document of the bio section alone
DeleteBioAlone(updated, data) ==
    IF ~CanDict(GetOr(updated, "bio", EmptyObj)) THEN RaiseOther("TypeError")
    ELSE LET b0 == Ok(AsDict(GetOr(updated, "bio", EmptyObj)))
             b1 == DeleteBioArray(b0, data, "summary")
             b2 == DeleteBioArray(b1, data, "highlights")
         IN  IF b2.ok THEN Ok(Put(EmptyObj, "bio", b2.doc)) ELSE b2

DeleteBio(updated, data) ==
    IF ~CanDict(GetOr(updated, "bio", EmptyObj)) THEN RaiseOther("TypeError")
    ELSE LET b0 == Ok(AsDict(GetOr(updated, "bio", EmptyObj)))
             b1 == DeleteBioArray(b0, data, "summary")
             b2 == DeleteBioArray(b1, data, "highlights")
         IN  IF b2.ok THEN Ok(Put(updated, "bio", b2.doc)) ELSE b2

\* contact delete that blanks only the keys given with a string value
DeleteContactStringsOnly(updated, data) ==
    IF ~CanDict(GetOr(updated, "contact", EmptyObj)) THEN RaiseOther("TypeError")
    ELSE LET contact == AsDict(GetOr(updated, "contact", EmptyObj))
             given == {k \in DOMAIN data.v : IsStrV(data.v[k])}
         IN  Ok(Put(updated, "contact",
                    JObj([k \in DOMAIN contact.v \cup given |->
                            IF k \in given THEN JStr("") ELSE contact.v[k]])))

DeleteContact(updated, data) ==
    IF ~CanDict(GetOr(updated, "contact", EmptyObj)) THEN RaiseOther("TypeError")
    ELSE LET contact == AsDict(GetOr(updated, "contact", EmptyObj))
         IN  Ok(Put(updated, "contact",
                    JObj([k \in DOMAIN contact.v \cup DOMAIN data.v |->
                            IF k \in DOMAIN data.v THEN JStr("") ELSE contact.v[k]])))

_delete(file_name, current, patch) ==
    IF file_name # "site.json" THEN Raise("Invalid or unsupported file")
    ELSE IF ~PatchHead(patch, "delete").ok THEN PatchHead(patch, "delete")
    ELSE LET section == Get(patch, "section").v
             data == Get(patch, "data")
         IN  CASE section \in {"services", "projects"} -> DeleteBlock(current, section, data)
               [] section = "bio" -> DeleteBio(current, data)
               [] section = "contact" -> DeleteContact(current, data)

\* _apply_operation whose replace returns the document it was given
_apply_operation_keeps_current(file_name, operation, current, patch) ==
    CASE operation = "replace" -> Ok(current)
      [] operation = "append" -> _append(file_name, current, patch)
      [] operation = "delete" -> _delete(file_name, current, patch)
      [] OTHER -> Raise("Unsupported operation")

_apply_operation(file_name, operation, current, patch) ==
    CASE operation = "replace" -> Ok(patch)
      [] operation = "append" -> _append(file_name, current, patch)
      [] operation = "delete" -> _delete(file_name, current, patch)
      [] OTHER -> Raise("Unsupported operation")


(***************************************************************************)
(* The patch engine on objects.  Python's dicts and lists are objects      *)
(* that several names may refer to, and x[key] = value changes the object  *)
(* for all of them.  A memory is a sequence of objects; a value is a       *)
(* string, a number, null, or a reference to an object of the memory.      *)
(* The functions below are _append, _delete and _apply_operation once      *)
(* more, statement by statement, on references.                            *)
(***************************************************************************)
Ref(a) == [t |-> "ref", v |-> a]
IsRef(x) == x.t = "ref"
\* the {} or [] written as the default of .get: a new, empty object
Literal == [t |-> "literal", v |-> 0]
Kind(h, x) == IF IsRef(x) THEN h[x.v].t ELSE x.t
Alloc(h, t, v) == [h |-> Append(h, [t |-> t, v |-> v]), val |-> Ref(Len(h) + 1)]

\* json.loads: the objects of a JSON value, the nested ones first
RECURSIVE Store(_, _), StoreAll(_, _, _, _)
Store(h, x) ==
    IF x.t \in {"obj", "arr"}
    THEN LET r == StoreAll(h, x.v, DOMAIN x.v, << >>)
         IN  Alloc(r.h, x.t, r.v)
    ELSE [h |-> h, val |-> x]
StoreAll(h, f, keys, acc) ==
    IF keys = {} THEN [h |-> h, v |-> acc]
    ELSE LET k == CHOOSE j \in keys : TRUE
             r == Store(h, f[k])
         IN  IF IsRef(r.val)
             THEN StoreAll(r.h, f, keys \ {k}, (k :> r.val) @@ acc)
             ELSE StoreAll(h, f, keys \ {k}, (k :> f[k]) @@ acc)

\* the JSON value a reference stands for
RECURSIVE Load(_, _)
Load(h, x) ==
    IF ~IsRef(x) THEN x
    ELSE [t |-> h[x.v].t, v |-> [k \in DOMAIN h[x.v].v |-> Load(h, h[x.v].v[k])]]

\* key in x, x[key], x.get(key, default)
RHas(h, x, key) == key \in DOMAIN h[x.v].v
RGet(h, x, key, default) == IF key \in DOMAIN h[x.v].v THEN h[x.v].v[key] ELSE default
Entries(h, x) == h[x.v].v

\* dict(x) and list(x) return the object x itself: no copy is made
CopyShared(h, x, t) ==
    IF IsRef(x) /\ h[x.v].t = t THEN [h |-> h, val |-> x] ELSE Alloc(h, t, << >>)

\* dict(x) and list(x): a new object holding the entries of x
Copy(h, x, t) ==
    IF IsRef(x) /\ h[x.v].t = t THEN Alloc(h, t, h[x.v].v) ELSE Alloc(h, t, << >>)
CanCopy(h, x, t) ==
    x = Literal \/ (IF t = "obj" THEN CanDict(Load(h, x)) ELSE CanList(Load(h, x)))

\* x[key] = f[key] for every key of f, in place
SetItems(h, x, f) == [h EXCEPT ![x.v].v = f @@ @]
SetItem(h, x, key, val) == SetItems(h, x, key :> val)

\* a + b: a new list
Concat(h, a, b) == Alloc(h, "arr", Entries(h, a) \o Entries(h, b))

Running(h) == [h |-> h, out |-> Ok(JNull)]
Returns(h, x) == [h |-> h, out |-> Ok(x)]
Raises(h, r) == [h |-> h, out |-> r]

AppendBioArrayRefs(m, bio, data, key) ==
    IF ~m.out.ok \/ ~RHas(m.h, data, key) THEN m
    ELSE IF Kind(m.h, Entries(m.h, data)[key]) # "arr"
         THEN Raises(m.h, Raise("bio append requires '" \o key \o "' as array"))
    ELSE IF ~CanCopy(m.h, RGet(m.h, bio, key, Literal), "arr")
         THEN Raises(m.h, RaiseOther("TypeError"))
    ELSE LET existing == Copy(m.h, RGet(m.h, bio, key, Literal), "arr")
             sum == Concat(existing.h, existing.val, Entries(m.h, data)[key])
         IN  Running(SetItem(sum.h, bio, key, sum.val))

AppendBioScalarRefs(m, bio, data, key) ==
    IF m.out.ok /\ RHas(m.h, data, key) /\ Kind(m.h, Entries(m.h, data)[key]) = "str"
    THEN Running(SetItem(m.h, bio, key, Entries(m.h, data)[key]))
    ELSE m

AppendBioRefs(h, updated, data) ==
    IF ~CanCopy(h, RGet(h, updated, "bio", Literal), "obj")
    THEN Raises(h, RaiseOther("TypeError"))
    ELSE LET bio == Copy(h, RGet(h, updated, "bio", Literal), "obj")
             m1 == AppendBioArrayRefs(Running(bio.h), bio.val, data, "summary")
             m2 == AppendBioArrayRefs(m1, bio.val, data, "highlights")
             m3 == AppendBioScalarRefs(m2, bio.val, data, "name")
             m4 == AppendBioScalarRefs(m3, bio.val, data, "title")
             m5 == AppendBioScalarRefs(m4, bio.val, data, "location")
         IN  IF m5.out.ok
             THEN Returns(SetItem(m5.h, updated, "bio", bio.val), updated)
             ELSE m5

AppendBlockRefs(h, updated, section, data) ==
    IF ~CanCopy(h, RGet(h, updated, section, Literal), "obj")
    THEN Raises(h, RaiseOther("TypeError"))
    ELSE LET block == Copy(h, RGet(h, updated, section, Literal), "obj")
             h1 == IF RHas(h, data, "intro") /\ Kind(h, Entries(h, data)["intro"]) = "str"
                   THEN SetItem(block.h, block.val, "intro", Entries(h, data)["intro"])
                   ELSE block.h
         IN  IF ~RHas(h, data, section)
             THEN Raises(h1, Raise(section \o " append requires '" \o section
                                           \o "' array in data"))
             ELSE IF Kind(h, Entries(h, data)[section]) # "arr"
                  THEN Raises(h1, Raise("'" \o section \o "' must be an array"))
             ELSE IF ~CanCopy(h1, RGet(h1, block.val, section, Literal), "arr")
                  THEN Raises(h1, RaiseOther("TypeError"))
             ELSE LET existing == Copy(h1, RGet(h1, block.val, section, Literal), "arr")
                      sum == Concat(existing.h, existing.val, Entries(h, data)[section])
                      h2 == SetItem(sum.h, block.val, section, sum.val)
                  IN  Returns(SetItem(h2, updated, section, block.val), updated)

\* the loop writes the keys that come before the first value that is not a
\* string; an object here keeps no key order, and the string-valued keys are
\* taken to come first
AppendContactRefs(h, updated, data) ==
    IF ~CanCopy(h, RGet(h, updated, "contact", Literal), "obj")
    THEN Raises(h, RaiseOther("TypeError"))
    ELSE LET contact == Copy(h, RGet(h, updated, "contact", Literal), "obj")
             given == Entries(h, data)
             strings == {k \in DOMAIN given : Kind(h, given[k]) = "str"}
             h1 == SetItems(contact.h, contact.val, [k \in strings |-> given[k]])
         IN  IF strings # DOMAIN given
             THEN Raises(h1, Raise("contact fields must be strings"))
             ELSE Returns(SetItem(h1, updated, "contact", contact.val), updated)

_append_refs(h, file_name, current, patch) ==
    IF file_name # "site.json" THEN Raises(h, Raise("Invalid or unsupported file"))
    ELSE LET updated == Copy(h, current, "obj")
             head == PatchHead(Load(h, patch), "append")
             section == RGet(h, patch, "section", JNull).v
             data == RGet(h, patch, "data", JNull)
         IN  IF ~head.ok THEN Raises(updated.h, head)
             ELSE CASE section = "bio" -> AppendBioRefs(updated.h, updated.val, data)
                    [] section \in {"services", "projects"} ->
                          AppendBlockRefs(updated.h, updated.val, section, data)
                    [] section = "contact" -> AppendContactRefs(updated.h, updated.val, data)

\* [item for item in items if ...]: a new list, without the entries to drop
Filter(h, items, drop) == Alloc(h, "arr", Reject(Entries(h, items), drop))

DeleteBlockRefs(h, updated, section, data) ==
    IF ~CanCopy(h, RGet(h, updated, section, Literal), "obj")
    THEN Raises(h, RaiseOther("TypeError"))
    ELSE LET block == Copy(h, RGet(h, updated, section, Literal), "obj")
             given == Entries(h, data)
             byName == "name" \in DOMAIN given /\ Kind(h, given["name"]) = "str"
             byNames == /\ "names" \in DOMAIN given
                        /\ Kind(h, given["names"]) = "arr"
                        /\ \A n \in SeqRange(Entries(h, given["names"])) : Kind(h, n) = "str"
             names == IF byName THEN {given["name"]}
                      ELSE SeqRange(Entries(h, given["names"]))
         IN  IF ~(byName \/ byNames)
             THEN Raises(block.h,
                         Raise("delete requires data.name (string) or data.names (string[])"))
             ELSE IF ~CanCopy(block.h, RGet(block.h, block.val, section, Literal), "arr")
                  THEN Raises(block.h, RaiseOther("TypeError"))
             ELSE LET items == Copy(block.h, RGet(block.h, block.val, section, Literal), "arr")
                      IsObject(item) == Kind(items.h, item) = "obj"
                      kept == Filter(items.h, items.val,
                                     {item \in SeqRange(Entries(items.h, items.val)) :
                                        IsObject(item) /\ RGet(items.h, item, "name", JNull) \in names})
                  IN  IF \E item \in SeqRange(Entries(items.h, items.val)) :
                            IsObject(item) /\ IsRef(RGet(items.h, item, "name", JNull))
                      THEN Raises(items.h, RaiseOther("TypeError"))
                      ELSE Returns(SetItem(SetItem(kept.h, block.val, section, kept.val),
                                           updated, section, block.val),
                                   updated)

DeleteBioArrayRefs(m, bio, data, key) ==
    IF ~m.out.ok \/ ~RHas(m.h, data, key) THEN m
    ELSE IF \/ Kind(m.h, Entries(m.h, data)[key]) # "arr"
            \/ \E s \in SeqRange(Entries(m.h, Entries(m.h, data)[key])) : Kind(m.h, s) # "str"
         THEN Raises(m.h, Raise("bio delete requires data." \o key \o " as string[]"))
    ELSE IF ~CanCopy(m.h, RGet(m.h, bio, key, Literal), "arr")
         THEN Raises(m.h, RaiseOther("TypeError"))
    ELSE LET existing == Copy(m.h, RGet(m.h, bio, key, Literal), "arr")
             kept == Filter(existing.h, existing.val,
                            SeqRange(Entries(m.h, Entries(m.h, data)[key])))
         IN  IF \E s \in SeqRange(Entries(existing.h, existing.val)) : IsRef(s)
             THEN Raises(existing.h, RaiseOther("TypeError"))
             ELSE Running(SetItem(kept.h, bio, key, kept.val))

DeleteBioRefs(h, updated, data) ==
    IF ~CanCopy(h, RGet(h, updated, "bio", Literal), "obj")
    THEN Raises(h, RaiseOther("TypeError"))
    ELSE LET bio == Copy(h, RGet(h, updated, "bio", Literal), "obj")
             m1 == DeleteBioArrayRefs(Running(bio.h), bio.val, data, "summary")
             m2 == DeleteBioArrayRefs(m1, bio.val, data, "highlights")
         IN  IF m2.out.ok
             THEN Returns(SetItem(m2.h, updated, "bio", bio.val), updated)
             ELSE m2

DeleteContactRefs(h, updated, data) ==
    IF ~CanCopy(h, RGet(h, updated, "contact", Literal), "obj")
    THEN Raises(h, RaiseOther("TypeError"))
    ELSE LET contact == Copy(h, RGet(h, updated, "contact", Literal), "obj")
             h1 == SetItems(contact.h, contact.val,
                            [k \in DOMAIN Entries(h, data) |-> JStr("")])
         IN  Returns(SetItem(h1, updated, "contact", contact.val), updated)

_delete_refs(h, file_name, current, patch) ==
    IF file_name # "site.json" THEN Raises(h, Raise("Invalid or unsupported file"))
    ELSE LET updated == Copy(h, current, "obj")
             head == PatchHead(Load(h, patch), "delete")
             section == RGet(h, patch, "section", JNull).v
             data == RGet(h, patch, "data", JNull)
         IN  IF ~head.ok THEN Raises(updated.h, head)
             ELSE CASE section \in {"services", "projects"} ->
                          DeleteBlockRefs(updated.h, updated.val, section, data)
                    [] section = "bio" -> DeleteBioRefs(updated.h, updated.val, data)
                    [] section = "contact" -> DeleteContactRefs(updated.h, updated.val, data)

\* replace returns the patch object itself
_apply_operation_refs(h, file_name, operation, current, patch) ==
    CASE operation = "replace" -> Returns(h, patch)
      [] operation = "append" -> _append_refs(h, file_name, current, patch)
      [] operation = "delete" -> _delete_refs(h, file_name, current, patch)
      [] OTHER -> Raises(h, Raise("Unsupported operation"))

\* the memory of a call: the objects, and the references the caller holds
Memory(h, current, patch, doc) == [h |-> h, current |-> current, patch |-> patch, doc |-> doc]
NoMemory == Memory(<< >>, JNull, JNull, JNull)

(***************************************************************************)
(* The site schema (schemas/site.schema.json, loaded by _schema_for): an   *)
(* object with the keys bio, services, projects and contact; bio an        *)
(* object, services and projects objects holding an array under their own  *)
(* name, contact an object of strings.                                     *)
(***************************************************************************)
SiteSchema(doc) ==
    /\ IsDict(doc)
    /\ Sections \subseteq DOMAIN doc.v
    /\ IsDict(doc.v["bio"])
    /\ IsDict(doc.v["services"]) /\ Has(doc.v["services"], "services")
                                 /\ IsList(doc.v["services"].v["services"])
    /\ IsDict(doc.v["projects"]) /\ Has(doc.v["projects"], "projects")
                                 /\ IsList(doc.v["projects"].v["projects"])
    /\ IsDict(doc.v["contact"]) /\ \A k \in DOMAIN doc.v["contact"].v :
                                        IsStrV(doc.v["contact"].v[k])

\* _validate raises jsonschema's ValidationError on a document the schema rejects
_validate(file_name, data) ==
    IF file_name # "site.json" THEN Raise("Invalid or unsupported file")
    ELSE IF ~SiteSchema(data) THEN RaiseOther("ValidationError")
    ELSE Ok(data)

(***************************************************************************)
(* Files.  A file is the text of a JSON document (with LF or CRLF line     *)
(* ends), or what an interrupted write leaves: nothing, or a prefix of     *)
(* the text.                                                               *)
(***************************************************************************)
Absent == [kind |-> "absent", doc |-> JNull, nl |-> "lf"]
Text(doc, nl) == [kind |-> "text", doc |-> doc, nl |-> nl]
Truncated == [kind |-> "empty", doc |-> JNull, nl |-> "lf"]
Prefix(f) == [kind |-> "partial", doc |-> f.doc, nl |-> f.nl]

\* Path.read_text(): universal newlines, every line end read as "\n"
read_text(f) == [f EXCEPT !.nl = "lf"]
\* json.loads of the file's text
_read_json(f) ==
    IF f.kind = "text" THEN Ok(f.doc) ELSE RaiseOther("JSONDecodeError")
\* json.dumps(data, indent=2) + "\n", written with newline="\n"
Dumps(data) == Text(data, "lf")

(***************************************************************************)
(* File names, as sequences of lexical tokens ("." and "/" are tokens of   *)
(* their own).  Alphabet lists the tokens in the order of their text.      *)
(***************************************************************************)
Alphabet == <<".", "/", "0", "1", "2", "3", "4", "5", "6", "7", "8", "9",
              "bak", "etc", "other.json", "passwd", "site.json">>
Rank(tok) == CHOOSE i \in 1..Len(Alphabet) : Alphabet[i] = tok

RECURSIVE LexLess(_, _)
LexLess(a, b) ==
    IF b = << >> THEN FALSE
    ELSE IF a = << >> THEN TRUE
    ELSE IF Head(a) # Head(b) THEN Rank(Head(a)) < Rank(Head(b))
    ELSE LexLess(Tail(a), Tail(b))

\* sorted(S, reverse=True)
RECURSIVE SortedDesc(_)
SortedDesc(S) ==
    IF S = {} THEN << >>
    ELSE LET top == CHOOSE x \in S : \A y \in S \ {x} : LexLess(y, x)
         IN  <<top>> \o SortedDesc(S \ {top})

StartsWith(s, pre) == Len(s) >= Len(pre) /\ SubSeq(s, 1, Len(pre)) = pre
EndsWith(s, suf) == Len(s) >= Len(suf) /\ SubSeq(s, Len(s) - Len(suf) + 1, Len(s)) = suf

\* strftime("%Y%m%dT%H%M%SZ"): a fixed-width stamp, here the two digits of the second
Digit(n) == Alphabet[n + 3]
\* a stamp without zero padding: its width grows with the clock
StampUnpadded(t) == IF t < 10 THEN <<Digit(t)>> ELSE <<Digit(t \div 10), Digit(t % 10)>>
Stamp(t) == <<Digit(t \div 10), Digit(t % 10)>>
\* f"{path.name}.{stamp}.bak"
BackupName(file_name, stamp) == <<file_name, ".">> \o stamp \o <<".", "bak">>

\* Path(s).name: the last component of the path
RECURSIVE PathName(_)
PathName(s) ==
    IF s = << >> THEN << >>
    ELSE IF s[Len(s)] = "/" THEN PathName(SubSeq(s, 1, Len(s) - 1))
    ELSE IF \E i \in 1..Len(s) : s[i] = "/"
         THEN LET last == CHOOSE i \in 1..Len(s) :
                              s[i] = "/" /\ \A j \in (i + 1)..Len(s) : s[j] # "/"
              IN  SubSeq(s, last + 1, Len(s))
    ELSE IF s = <<".">> THEN << >>
    ELSE s

\* (root / s).resolve() lies in root: walking the components of s never
\* leaves root, and s is not absolute
RECURSIVE Inside(_, _, _)
Inside(s, comp, depth) ==
    IF s = << >> \/ Head(s) = "/"
    THEN LET d == IF comp = <<".", ".">> THEN depth - 1
                  ELSE IF comp \in {<< >>, <<".">>} THEN depth
                  ELSE depth + 1
         IN  IF d < 0 THEN FALSE
             ELSE IF s = << >> THEN TRUE
             ELSE Inside(Tail(s), << >>, d)
    ELSE Inside(Tail(s), Append(comp, Head(s)), depth)
ResolvesInside(s) == ~StartsWith(s, <<"/">>) /\ Inside(s, << >>, 0)

\* root.glob(f"{file_name}.*.bak")
GlobMatch(file_name, name) ==
    /\ StartsWith(name, <<file_name, ".">>)
    /\ EndsWith(name, <<".", "bak">>)
    /\ Len(name) >= 4


(***************************************************************************)
(* The state: the disk (the live file website/content/site.json, the       *)
(* directory .backups and its files), the clock, and the one request the   *)
(* single-threaded process is running.                                     *)
(***************************************************************************)
VARIABLES
    live,       \* the file site.json
    dirExists,  \* whether .backups exists
    backups,    \* the files of .backups: name -> file
    now,        \* the UTC clock, in seconds
    pc,         \* where the process is: "idle", inside a write, or "crashed"
    pos,        \* index of the running request's current step
    c,          \* the running (or last) request: arguments, locals, outcome
    pre,        \* the disk as it was when the request began
    nreq,       \* requests made so far
    live0,      \* the live file of the initial state
    tool,       \* the caller of the request (a tool of the server, the chat) and its reply
    prior       \* the request before the running one: what it was, how it ended, the live file it found

vars == <<live, dirExists, backups, now, pc, pos, c, pre, nreq, live0, tool, prior>>

\* how many requests a behaviour makes, and how many seconds the clock ticks
MaxRequests == 2
Seconds == 1
\* the clock's reading in the initial state: second 09, so that the stamps
\* written cross from one digit pattern to the next
Epoch == 9

Disk(l, d, b) == [live |-> l, dir |-> d, backups |-> b]

NoName == << >>
NoBackupArg == [given |-> FALSE, name |-> NoName]
Named(n) == [given |-> TRUE, name |-> n]

\* a request's arguments and locals before its first statement
Fresh(kind, payload, backup) ==
    [kind |-> kind, payload |-> payload, backup |-> backup,
     file |-> IF kind = "restore" THEN "site.json" ELSE "",
     operation |-> "", content |-> JNull,
     current |-> JNull, doc |-> JNull,
     available |-> << >>, chosen |-> NoName,
     saved |-> NoName, text |-> Absent,
     out |-> Ok(JNull), io |-> << >>, mem |-> NoMemory]

\* what is kept of a request once the next one is made
Previous == [kind |-> c.kind, given |-> c.backup.given, ok |-> c.out.ok, live |-> pre.live]
NoRequest == [kind |-> "none", given |-> FALSE, ok |-> TRUE, live |-> Absent]

Fail(cx, r) == [cx EXCEPT !.out = r]
Did(cx, access) == [cx EXCEPT !.io = Append(@, access)]

\* list_backups without reverse=True: oldest first
list_backups_ascending(file_name, disk) ==
    IF ~disk.dir THEN << >>
    ELSE LET desc == SortedDesc({n \in DOMAIN disk.backups : GlobMatch(file_name, n)})
         IN  [i \in 1..Len(desc) |-> desc[Len(desc) + 1 - i]]

\* list_backups: [] when .backups is missing, else the matching names, newest first
list_backups(file_name, disk) ==
    IF ~disk.dir THEN << >>
    ELSE SortedDesc({n \in DOMAIN disk.backups : GlobMatch(file_name, n)})

\* _allowed_path: (content_root() / file_name).resolve() must lie in content_root()
_allowed_path(cx) ==
    IF ResolvesInside(<<cx.file>>) THEN Did(cx, "resolve")
    ELSE Fail(Did(cx, "resolve"), Raise("Refusing to access outside content directory"))

\* if not path.exists(): raise
PathExists(cx, disk) ==
    IF disk.live.kind # "absent" THEN Did(cx, "stat")
    ELSE Fail(Did(cx, "stat"), Raise("Content file does not exist"))

(***************************************************************************)
(* apply_update, statement by statement.  backup_file and write_json       *)
(* change the disk and are actions of their own; the others only read.     *)
(***************************************************************************)
\* apply_update with the backup taken before the patched document is validated
UpdateStepsBackupFirst ==
    <<"coerce", "allowed_path", "exists", "read_current", "validate_current",
      "apply_operation", "backup_file", "validate_updated", "write_json">>

\* apply_update without the validation of the patched document
UpdateStepsUnvalidated ==
    <<"coerce", "allowed_path", "exists", "read_current", "validate_current",
      "apply_operation", "backup_file", "write_json">>

\* apply_update writing the live file before it backs it up
UpdateStepsWriteFirst ==
    <<"coerce", "allowed_path", "exists", "read_current", "validate_current",
      "apply_operation", "validate_updated", "write_json", "backup_file">>

UpdateSteps ==
    <<"coerce", "allowed_path", "exists", "read_current", "validate_current",
      "apply_operation", "validate_updated", "backup_file", "write_json">>

UpdateStep(step, cx, disk) ==
    CASE step = "coerce" ->
            LET r == _coerce_payload(cx.payload)
            IN  IF r.ok THEN [cx EXCEPT !.file = r.doc.v["file"].v,
                                        !.operation = r.doc.v["operation"].v,
                                        !.content = r.doc.v["content"]]
                ELSE Fail(cx, r)
      [] step = "allowed_path" -> _allowed_path(cx)
      [] step = "exists" -> PathExists(cx, disk)
      [] step = "read_current" ->
            LET r == _read_json(disk.live)
            IN  IF r.ok THEN [Did(cx, "read") EXCEPT !.current = r.doc]
                ELSE Fail(Did(cx, "read"), r)
      [] step = "validate_current" ->
            LET r == _validate(cx.file, cx.current)
            IN  IF r.ok THEN cx ELSE Fail(cx, r)
      [] step = "apply_operation" ->
            LET r == _apply_operation(cx.file, cx.operation, cx.current, cx.content)
            IN  IF r.ok THEN [cx EXCEPT !.doc = r.doc] ELSE Fail(cx, r)
      [] step = "validate_updated" ->
            LET r == _validate(cx.file, cx.doc)
            IN  IF r.ok THEN cx ELSE Fail(cx, r)

(***************************************************************************)
(* restore_backup, statement by statement.                                 *)
(***************************************************************************)
\* restore_backup writing the live file before it backs it up
RestoreStepsWriteFirst ==
    <<"allowed_path", "exists", "list_backups", "choose", "resolve_backup",
      "read_backup", "validate_restored", "write_json", "backup_file">>

RestoreSteps ==
    <<"allowed_path", "exists", "list_backups", "choose", "resolve_backup",
      "read_backup", "validate_restored", "backup_file", "write_json">>

\* the choice of the backup without the test that the named backup exists
ChooseUnchecked(cx) ==
    IF ~cx.backup.given THEN [cx EXCEPT !.chosen = cx.available[1]]
    ELSE IF PathName(cx.backup.name) # cx.backup.name
         THEN Fail(cx, Raise("backup must be a filename, not a path"))
    ELSE IF ~(StartsWith(cx.backup.name, <<cx.file, ".">>)
              /\ EndsWith(cx.backup.name, <<".", "bak">>))
         THEN Fail(cx, Raise("backup filename does not match target file"))
    ELSE [cx EXCEPT !.chosen = cx.backup.name]

\* the choice of the backup: the newest, or the named one after the name checks
Choose(cx) ==
    IF ~cx.backup.given THEN [cx EXCEPT !.chosen = cx.available[1]]
    ELSE IF PathName(cx.backup.name) # cx.backup.name
         THEN Fail(cx, Raise("backup must be a filename, not a path"))
    ELSE IF ~(StartsWith(cx.backup.name, <<cx.file, ".">>)
              /\ EndsWith(cx.backup.name, <<".", "bak">>))
         THEN Fail(cx, Raise("backup filename does not match target file"))
    ELSE IF cx.backup.name \notin SeqRange(cx.available)
         THEN Fail(cx, Raise("backup not found"))
    ELSE [cx EXCEPT !.chosen = cx.backup.name]

RestoreStep(step, cx, disk) ==
    CASE step = "allowed_path" -> _allowed_path(cx)
      [] step = "exists" -> PathExists(cx, disk)
      [] step = "list_backups" ->
            LET av == list_backups(cx.file, disk)
            IN  IF av # << >> THEN [Did(cx, "list") EXCEPT !.available = av]
                ELSE Fail(Did(cx, "list"), Raise("No backups found"))
      [] step = "choose" -> Choose(cx)
      [] step = "resolve_backup" ->
            IF ResolvesInside(cx.chosen) THEN Did(cx, "resolve")
            ELSE Fail(Did(cx, "resolve"),
                      Raise("Refusing to access outside backups directory"))
      [] step = "read_backup" ->
            IF ~(disk.dir /\ cx.chosen \in DOMAIN disk.backups)
            THEN Fail(Did(cx, "read"), RaiseOther("FileNotFoundError"))
            ELSE LET r == _read_json(disk.backups[cx.chosen])
                 IN  IF r.ok THEN [Did(cx, "read") EXCEPT !.doc = r.doc]
                     ELSE Fail(Did(cx, "read"), r)
      [] step = "validate_restored" ->
            LET r == _validate(cx.file, cx.doc)
            IN  IF r.ok THEN cx ELSE Fail(cx, r)

DiskSteps == {"backup_file", "write_json"}
StepsOf(kind) == IF kind = "update" THEN UpdateSteps ELSE RestoreSteps
Step(step, cx, disk) ==
    IF cx.kind = "update" THEN UpdateStep(step, cx, disk) ELSE RestoreStep(step, cx, disk)

\* run the request from step i up to its next disk step, its first raise, or its end
RECURSIVE Run(_, _, _)
Run(i, cx, disk) ==
    IF ~cx.out.ok \/ i > Len(StepsOf(cx.kind)) \/ StepsOf(cx.kind)[i] \in DiskSteps
    THEN [pos |-> i, cx |-> cx]
    ELSE Run(i + 1, Step(StepsOf(cx.kind)[i], cx, disk), disk)

Returned(r) == ~r.cx.out.ok \/ r.pos > Len(StepsOf(r.cx.kind))
PcAt(r) ==
    IF Returned(r) THEN "idle"
    ELSE IF StepsOf(r.cx.kind)[r.pos] = "backup_file" THEN "mkdir"
    ELSE "live_open"

\* the value a finished request returns (lines 181-186 and 86-91)
Result(cx) ==
    IF ~cx.out.ok THEN [status |-> "raised", exc |-> cx.out.exc, msg |-> cx.out.msg]
    ELSE IF cx.kind = "update"
         THEN [status |-> "ok", file |-> cx.file, operation |-> cx.operation,
               backup |-> cx.saved]
    ELSE [status |-> "ok", file |-> cx.file, restored_from |-> cx.chosen,
          backup_of_current |-> cx.saved]


(***************************************************************************)
(* The writes.  _backup_file: mkdir, the stamp, then                       *)
(* backup.write_text(path.read_text()); _write_json: path.write_text of    *)
(* the dumped document.  write_text opens the file for writing, which      *)
(* creates or empties it, writes the text (in pieces when it is long) and  *)
(* closes it.                                                              *)
(***************************************************************************)
\* the statements that follow a finished disk step, on the disk it left
Continue(cx, l, d, b) ==
    LET r == Run(pos + 1, cx, Disk(l, d, b))
    IN  /\ pos' = r.pos
        /\ c' = r.cx
        /\ pc' = PcAt(r)

\* backups_root().mkdir(parents=True, exist_ok=True); stamp = now; backup = root / name
Mkdir ==
    /\ pc = "mkdir"
    /\ dirExists' = TRUE
    /\ c' = [Did(c, "mkdir") EXCEPT !.saved = BackupName("site.json", Stamp(now))]
    /\ pc' = "backup_open"
    /\ UNCHANGED <<live, backups, now, pos, pre, nreq, live0, tool, prior>>

\* path.read_text(), then backup.write_text(...) opens the backup file
BackupOpen ==
    /\ pc = "backup_open"
    /\ IF live.kind = "absent"
       THEN /\ c' = Fail(Did(c, "read"), RaiseOther("FileNotFoundError"))
            /\ pc' = "idle"
            /\ UNCHANGED backups
       ELSE /\ c' = [Did(Did(c, "read"), "write") EXCEPT !.text = read_text(live)]
            /\ backups' = (c.saved :> Truncated) @@ backups
            /\ pc' = "backup_close"
    /\ UNCHANGED <<live, dirExists, now, pos, pre, nreq, live0, tool, prior>>

\* a first piece of the text reaches the backup file
BackupFlush ==
    /\ pc = "backup_close"
    /\ backups[c.saved].kind = "empty"
    /\ c.text.kind # "empty"
    /\ backups' = [backups EXCEPT ![c.saved] = Prefix(c.text)]
    /\ UNCHANGED <<live, dirExists, now, pc, pos, c, pre, nreq, live0, tool, prior>>

\* the whole text is written and the backup file closed; _backup_file returns
BackupClose ==
    /\ pc = "backup_close"
    /\ backups' = [backups EXCEPT ![c.saved] = c.text]
    /\ Continue(c, live, dirExists, [backups EXCEPT ![c.saved] = c.text])
    /\ UNCHANGED <<live, dirExists, now, pre, nreq, live0, tool, prior>>

\* _write_json: json.dumps, then path.write_text(...) opens the live file
LiveOpen ==
    /\ pc = "live_open"
    /\ live' = Truncated
    /\ c' = Did(c, "write")
    /\ pc' = "live_close"
    /\ UNCHANGED <<dirExists, backups, now, pos, pre, nreq, live0, tool, prior>>

\* a first piece of the text reaches the live file
LiveFlush ==
    /\ pc = "live_close"
    /\ live.kind = "empty"
    /\ live' = Prefix(Dumps(c.doc))
    /\ UNCHANGED <<dirExists, backups, now, pc, pos, c, pre, nreq, live0, tool, prior>>

\* the whole text is written and the live file closed; _write_json returns
LiveClose ==
    /\ pc = "live_close"
    /\ live' = Dumps(c.doc)
    /\ Continue(c, Dumps(c.doc), dirExists, backups)
    /\ UNCHANGED <<dirExists, backups, now, pre, nreq, live0, tool, prior>>

\* the process dies inside a write; the disk stays as it is
Crash ==
    /\ pc \notin {"idle", "crashed"}
    /\ pc' = "crashed"
    /\ UNCHANGED <<live, dirExists, backups, now, pos, c, pre, nreq, live0, tool, prior>>

\* the clock; a tick during a request is a tick before or after it, since a
\* request reads the clock once
Tick ==
    /\ pc = "idle"
    /\ now < Epoch + Seconds
    /\ now' = now + 1
    /\ UNCHANGED <<live, dirExists, backups, pc, pos, c, pre, nreq, live0, tool, prior>>

\* a call of apply_update: it runs up to its first write, its raise or its return
apply_update(payload) ==
    /\ pc = "idle"
    /\ nreq < MaxRequests
    /\ LET r == Run(1, Fresh("update", payload, NoBackupArg), Disk(live, dirExists, backups))
       IN  /\ pos' = r.pos
           /\ c' = r.cx
           /\ pc' = PcAt(r)
    /\ pre' = Disk(live, dirExists, backups)
    /\ prior' = Previous
    /\ nreq' = nreq + 1
    /\ UNCHANGED <<live, dirExists, backups, now, live0, tool>>

\* a call of restore_backup(file_name="site.json", backup=...)
restore_backup(backup) ==
    /\ pc = "idle"
    /\ nreq < MaxRequests
    /\ LET r == Run(1, Fresh("restore", JNull, backup), Disk(live, dirExists, backups))
       IN  /\ pos' = r.pos
           /\ c' = r.cx
           /\ pc' = PcAt(r)
    /\ pre' = Disk(live, dirExists, backups)
    /\ prior' = Previous
    /\ nreq' = nreq + 1
    /\ UNCHANGED <<live, dirExists, backups, now, live0, tool>>

(***************************************************************************)
(* Inputs.                                                                 *)
(***************************************************************************)
Item(n) == JObj([name |-> JStr(n)])
DocA == JObj([bio |-> JObj([name |-> JStr("n")]),
              services |-> JObj([services |-> JArr(<<Item("A")>>)]),
              projects |-> JObj([projects |-> EmptyArr]),
              contact |-> JObj([email |-> JStr("e")])])
DocB == JObj([bio |-> JObj([name |-> JStr("m")]),
              services |-> JObj([services |-> EmptyArr]),
              projects |-> JObj([projects |-> EmptyArr]),
              contact |-> JObj([email |-> JStr("e")])])
\* no contact: the schema rejects it
DocBad == JObj([bio |-> JObj([name |-> JStr("n")]),
                services |-> JObj([services |-> JArr(<<Item("A")>>)]),
                projects |-> JObj([projects |-> EmptyArr])])

Payload(op, content) ==
    JObj([file |-> JStr("site.json"), operation |-> JStr(op), content |-> content])
Patch(section, data) == JObj([section |-> JStr(section), data |-> data])

GoodPayloads ==
    { Payload("replace", DocB),
      Payload("replace", DocBad),
      Payload("append", Patch("services", JObj([services |-> JArr(<<Item("B")>>)]))),
      Payload("append", Patch("team", EmptyObj)),
      Payload("delete", Patch("services", JObj([name |-> JStr("A")]))),
      Payload("delete", Patch("contact", JObj([email |-> JNull]))) }

\* payloads _coerce_payload must refuse
BadPayloads ==
    { JStr("site.json"),
      JObj([file |-> JStr("site.json"), operation |-> JStr("replace"),
            content |-> DocB, backup |-> JNull]),
      JObj([file |-> JStr("other.json"), operation |-> JStr("replace"), content |-> DocB]),
      JObj([operation |-> JStr("replace"), content |-> DocB]),
      Payload("merge", DocB),
      JObj([file |-> JStr("site.json"), operation |-> EmptyArr, content |-> DocB]),
      JObj([file |-> JStr("site.json"), operation |-> JStr("replace"), content |-> JArr(<<DocB>>)]),
      JObj([file |-> JStr("site.json"), operation |-> JStr("replace")]) }

UpdatePayloads == GoodPayloads \cup BadPayloads

Times == (Epoch - 1)..(Epoch + Seconds)
WellFormedNames == {BackupName("site.json", Stamp(t)) : t \in Times}
                   \cup {<<"site.json", ".", "bak">>}
\* "../../etc/passwd", "/etc/passwd", "other.json.<stamp>.bak", a backup of another
\* file, and a path into the backups directory
MalformedNames ==
    { <<".", ".", "/", ".", ".", "/", "etc", "/", "passwd">>,
      <<"/", "etc", "/", "passwd">>,
      BackupName("other.json", Stamp(Epoch - 1)),
      <<"site.json", ".", "etc">>,
      <<".", "/">> \o BackupName("site.json", Stamp(Epoch - 1)) }
RestoreArgs == {NoBackupArg} \cup {Named(n) : n \in WellFormedNames \cup MalformedNames}

(***************************************************************************)
(* The callers of the engine: the tools update_website_content and         *)
(* rollback_website_content of the server (mcp_server.py) and a turn of    *)
(* the chat front end (chat_cli.py).  Each makes one request and, when it  *)
(* succeeded and the git step is on, calls the git helper                  *)
(* stage_commit_push.                                                      *)
(***************************************************************************)
\* stage_commit_push (ai_manager/git_ops.py): it stages, commits and pushes the
\* paths given; it returns its result or raises GitError, and writes nothing
\* under website/content
GitDone == [status |-> "ok"]
GitOutcomes == {[ok |-> TRUE, msg |-> ""], [ok |-> FALSE, msg |-> "git push failed"]}

\* {"payload": {...}} with no other key stands for the inner object
_unwrap_inspector_args(arg) ==
    IF IsDict(arg) /\ DOMAIN arg.v = {"payload"} /\ IsDict(arg.v["payload"])
    THEN arg.v["payload"]
    ELSE arg

\* os.getenv("AUTO_GIT_PUSH", "").strip() in {...}
AutoGitPush(env) == env \in {"1", "true", "TRUE", "yes", "YES"}

ErrorValue(msg) == [status |-> "error", error |-> msg]
NoValue == [status |-> "none"]
\* a caller's reply: the value returned (or the exception that left the
\* function), and for the chat the lines printed
Reply(value) == [raised |-> FALSE, exc |-> "", value |-> value, printed |-> << >>]
Propagated(exc) == [raised |-> TRUE, exc |-> exc, value |-> NoValue, printed |-> << >>]
Printed(lines) == [raised |-> FALSE, exc |-> "", value |-> NoValue, printed |-> lines]

\* a try statement with `except ContentUpdateError` alone
CaughtContentErrorsOnly(out) ==
    IF out.exc = "ContentUpdateError" THEN Reply(ErrorValue(out.msg))
    ELSE Propagated(out.exc)

\* except ContentUpdateError as e: ...; except Exception as e: ...
Caught(out) ==
    IF out.exc = "ContentUpdateError" THEN Reply(ErrorValue(out.msg))
    ELSE Reply(ErrorValue("Unexpected error: " \o out.exc))

\* a git step whose failure replaces the result
WithGitOrFailure(result, git) ==
    IF git.ok
    THEN [k \in DOMAIN result \cup {"git"} |-> IF k = "git" THEN GitDone ELSE result[k]]
    ELSE ErrorValue(git.msg)

\* result["git"] = git_result, or in `except GitError as e`
\* result["git"] = {"status": "error", "error": str(e)}
WithGit(result, git) ==
    [k \in DOMAIN result \cup {"git"} |->
        IF k # "git" THEN result[k]
        ELSE IF git.ok THEN GitDone ELSE ErrorValue(git.msg)]

\* what a tool of the server returns once its request has returned or raised
ToolReply(cx, auto, git) ==
    IF ~cx.out.ok THEN Caught(cx.out)
    ELSE IF auto THEN Reply(WithGit(Result(cx), git))
    ELSE Reply(Result(cx))

\* what a turn of the chat prints: the result, then the git result or the error
Line(kind, value) == [line |-> kind, value |-> value]
ChatReply(cx, auto, git) ==
    IF ~cx.out.ok
    THEN IF cx.out.exc \in {"ContentUpdateError", "JSONDecodeError"}
         THEN Printed(<<Line("error", ErrorValue(cx.out.msg))>>)
         ELSE Printed(<<Line("unexpected", ErrorValue(cx.out.exc))>>)
    ELSE IF ~auto THEN Printed(<<Line("result", Result(cx))>>)
    ELSE IF git.ok THEN Printed(<<Line("result", Result(cx)), Line("git", GitDone)>>)
    ELSE Printed(<<Line("result", Result(cx)), Line("error", ErrorValue(git.msg))>>)

\* the tests rollback_website_content makes before it calls restore_backup
RollbackArgError(payload) ==
    IF ~IsDict(payload) THEN "Payload must be an object"
    ELSE IF Get(payload, "file") # JStr("site.json") THEN "Invalid or unsupported file"
    ELSE IF Get(payload, "backup") # JNull /\ ~IsStrV(Get(payload, "backup"))
         THEN "backup must be a string"
    ELSE ""

Caller(name, auto) ==
    [caller |-> name, phase |-> "running", called |-> TRUE, auto |-> auto, git |-> "none",
     reply |-> Reply(NoValue)]
NoCaller == [Caller("none", FALSE) EXCEPT !.phase = "none"]

\* the caller calls apply_update or restore_backup
Call(kind, payload, backup) ==
    /\ pc = "idle"
    /\ tool.phase # "running"
    /\ nreq < MaxRequests
    /\ LET r == Run(1, Fresh(kind, payload, backup), Disk(live, dirExists, backups))
       IN  /\ pos' = r.pos
           /\ c' = r.cx
           /\ pc' = PcAt(r)
    /\ pre' = Disk(live, dirExists, backups)
    /\ prior' = Previous
    /\ nreq' = nreq + 1
    /\ UNCHANGED <<live, dirExists, backups, now, live0>>

update_website_content(payload, env) ==
    /\ Call("update", _unwrap_inspector_args(payload), NoBackupArg)
    /\ tool' = Caller("update_website_content", AutoGitPush(env))

rollback_website_content(payload, env) ==
    LET arg == _unwrap_inspector_args(payload)
    IN  IF RollbackArgError(arg) # ""
        THEN /\ pc = "idle"
             /\ tool.phase # "running"
             /\ nreq < MaxRequests
             /\ nreq' = nreq + 1
             /\ tool' = [Caller("rollback_website_content", AutoGitPush(env)) EXCEPT
                            !.phase = "returned",
                            !.called = FALSE,
                            !.reply = Reply(ErrorValue(RollbackArgError(arg)))]
             /\ UNCHANGED <<live, dirExists, backups, now, pc, pos, c, pre, live0, prior>>
        ELSE /\ Call("restore", JNull,
                     IF Get(arg, "backup") = JNull THEN NoBackupArg
                     ELSE Named(Get(arg, "backup").v))
             /\ tool' = Caller("rollback_website_content", AutoGitPush(env))

\* a turn of the chat with the payload typed in; --git is the flag
chat_turn(payload, flag) ==
    /\ Call("update", payload, NoBackupArg)
    /\ tool' = Caller("chat", flag)

\* the request has returned or raised: the except clauses, the git step, the reply
Return ==
    /\ tool.phase = "running"
    /\ pc = "idle"
    /\ \E git \in GitOutcomes :
          tool' = [tool EXCEPT
                      !.phase = "returned",
                      !.git = IF ~(c.out.ok /\ tool.auto) THEN "none"
                              ELSE IF git.ok THEN "done" ELSE "failed",
                      !.reply = IF tool.caller = "chat" THEN ChatReply(c, tool.auto, git)
                                ELSE ToolReply(c, tool.auto, git)]
    /\ UNCHANGED <<live, dirExists, backups, now, pc, pos, c, pre, nreq, live0, prior>>

Envs == {"", "1"}

ToolUpdateArgs ==
    { Payload("replace", DocB),
      JObj([payload |-> Payload("append", Patch("services",
                                                JObj([services |-> JArr(<<Item("B")>>)])))]),
      Payload("replace", DocBad),
      JObj([file |-> JStr("site.json"), operation |-> EmptyArr, content |-> DocB]),
      JStr("site.json") }

ToolRollbackArgs ==
    { JObj([file |-> JStr("site.json")]),
      JObj([payload |-> JObj([file |-> JStr("site.json")])]),
      JObj([file |-> JStr("site.json"),
            backup |-> JStr(BackupName("site.json", Stamp(Epoch - 1)))]),
      JObj([file |-> JStr("site.json"), backup |-> JStr(<<"/", "etc", "/", "passwd">>)]),
      JObj([file |-> JStr("site.json"), backup |-> JNum(1)]),
      JObj([file |-> JStr("other.json")]),
      EmptyArr }

ChatArgs == {Payload("replace", DocB), Payload("merge", DocB)}

NoFiles == [n \in {} |-> Absent]

\* the backup an earlier run left, one second before the clock's first reading
OldBackup == BackupName("site.json", Stamp(Epoch - 1))

\* site.json as checked out (valid, with either line end), as a hand edit may
\* have left it (rejected by the schema), or missing; .backups missing, empty,
\* or holding one backup of an earlier run
Init ==
    /\ live \in {Text(DocA, "lf"), Text(DocA, "crlf"), Text(DocBad, "lf"), Absent}
    /\ \E old \in {"missing", "empty", "valid", "invalid"} :
          /\ dirExists = (old # "missing")
          /\ backups = CASE old = "valid" -> OldBackup :> Text(DocB, "lf")
                         [] old = "invalid" -> OldBackup :> Text(DocBad, "lf")
                         [] OTHER -> NoFiles
    /\ now = Epoch
    /\ pc = "idle"
    /\ pos = 0
    /\ c = Fresh("none", JNull, NoBackupArg)
    /\ pre = Disk(live, dirExists, backups)
    /\ nreq = 0
    /\ live0 = live
    /\ tool = NoCaller
    /\ prior = NoRequest

Next ==
    \/ \E payload \in UpdatePayloads : apply_update(payload)
    \/ \E backup \in RestoreArgs : restore_backup(backup)
    \/ Mkdir
    \/ BackupOpen
    \/ BackupFlush
    \/ BackupClose
    \/ LiveOpen
    \/ LiveFlush
    \/ LiveClose
    \/ Crash
    \/ Tick

Spec == Init /\ [][Next]_vars

NextTool ==
    \/ \E payload \in ToolUpdateArgs, env \in Envs : update_website_content(payload, env)
    \/ \E payload \in ToolRollbackArgs, env \in Envs : rollback_website_content(payload, env)
    \/ \E payload \in ChatArgs, flag \in BOOLEAN : chat_turn(payload, flag)
    \/ Return
    \/ Mkdir
    \/ BackupOpen
    \/ BackupFlush
    \/ BackupClose
    \/ LiveOpen
    \/ LiveFlush
    \/ LiveClose
    \/ Crash
    \/ Tick

SpecTool == Init /\ [][NextTool]_vars


(***************************************************************************)
(* The patch engine on its own: _apply_operation applied to a document     *)
(* and a patch drawn from the sets below, and applied again to what it     *)
(* returned.  Of the request record, `payload` holds the document first    *)
(* given, `current` the document of the last call, `content` the patch,    *)
(* `doc` and `out` what the last call returned or raised, `mem` the        *)
(* objects and the references to the document given, the patch and the     *)
(* document returned; pos counts the calls.                                *)
(***************************************************************************)
\* how many times the patch is applied in a row
MaxCalls == 2

\* an entry without a name
Untitled == JObj([title |-> JStr("t")])

\* a document with every array filled: repeated entries, an entry without a
\* name, an entry that is not an object
CurFull ==
    JObj([bio |-> JObj([name |-> JStr("n"), title |-> JStr("t"),
                        summary |-> JArr(<<JStr("s1"), JStr("s2"), JStr("s1")>>),
                        highlights |-> JArr(<<JStr("h1")>>)]),
          services |-> JObj([intro |-> JStr("i"),
                             services |-> JArr(<<Item("A"), Untitled, Item("B"),
                                                 Item("A"), JStr("A")>>)]),
          projects |-> JObj([projects |-> JArr(<<Item("B"), Item("C")>>)]),
          contact |-> JObj([email |-> JStr("e"), phone |-> JStr("p")])])

Currents == {CurFull, DocB}

PatchSections ==
    {JStr("bio"), JStr("services"), JStr("projects"), JStr("contact"),
     JStr("team"), JNum(1), EmptyArr}

PatchData ==
    { \* bio
      JObj([summary |-> JArr(<<JStr("s3"), JStr("s1")>>)]),
      JObj([summary |-> JArr(<<JStr("s1")>>), highlights |-> JArr(<<JStr("h2")>>),
            name |-> JStr("x")]),
      JObj([highlights |-> JArr(<<JStr("h1"), JStr("zz")>>)]),
      JObj([name |-> JNum(5)]),
      JObj([summary |-> JStr("")]),
      JObj([summary |-> JArr(<<JStr("s3")>>), highlights |-> JStr("")]),
      JObj([summary |-> JArr(<<JNum(5)>>)]),
      \* services and projects
      JObj([services |-> JArr(<<Item("C"), Item("A")>>)]),
      JObj([intro |-> JStr("j"), services |-> EmptyArr]),
      JObj([intro |-> JNum(5), services |-> JArr(<<Item("C")>>)]),
      JObj([services |-> JStr("")]),
      JObj([projects |-> JArr(<<Untitled>>)]),
      JObj([name |-> JStr("A")]),
      JObj([name |-> JStr("Z")]),
      JObj([names |-> JArr(<<JStr("A"), JStr("B")>>)]),
      JObj([names |-> EmptyArr]),
      JObj([name |-> JStr("A"), names |-> JArr(<<JStr("B")>>)]),
      JObj([name |-> JStr("B"), names |-> JArr(<<JStr("A"), JNum(5)>>)]),
      JObj([name |-> JNum(5), names |-> JArr(<<JStr("B")>>)]),
      JObj([names |-> JStr("")]),
      JObj([names |-> JArr(<<JStr("A"), JNum(5)>>)]),
      \* contact
      JObj([email |-> JStr("x"), fax |-> JStr("f")]),
      JObj([email |-> JNull, fax |-> JNum(5)]),
      \* every section
      EmptyObj,
      \* not an object
      JStr("x"), JArr(<<Item("C")>>), JNull }

Patches ==
    {JObj([section |-> sec, data |-> d]) : sec \in PatchSections, d \in PatchData}
    \cup {JObj([section |-> sec]) : sec \in PatchSections}
    \cup {JObj([data |-> d]) : d \in PatchData}

InitPatch ==
    /\ live = Absent
    /\ dirExists = FALSE
    /\ backups = NoFiles
    /\ now = Epoch
    /\ pc = "call"
    /\ pos = 0
    /\ \E operation \in Operations \cup {"merge"}, current \in Currents, patch \in Patches :
          LET cur == Store(<< >>, current)
              pat == Store(cur.h, patch)
          IN  c = [Fresh("patch", current, NoBackupArg) EXCEPT
                      !.file = "site.json", !.operation = operation,
                      !.current = current, !.content = patch,
                      !.mem = Memory(pat.h, cur.val, pat.val, JNull)]
    /\ pre = Disk(live, dirExists, backups)
    /\ nreq = 0
    /\ live0 = live
    /\ tool = NoCaller
    /\ prior = NoRequest

\* updated = _apply_operation(file_name, operation, current, content), on the
\* document given or on the document the call before returned
ApplyOperation ==
    /\ pc \in {"call", "returned"}
    /\ c.out.ok
    /\ pos < MaxCalls
    /\ LET current == IF pos = 0 THEN c.current ELSE c.doc
           r == _apply_operation(c.file, c.operation, current, c.content)
           given == IF pos = 0 THEN c.mem.current ELSE c.mem.doc
           m == _apply_operation_refs(c.mem.h, c.file, c.operation, given, c.mem.patch)
       IN  c' = [c EXCEPT !.current = current, !.doc = r.doc, !.out = r,
                          !.mem = Memory(m.h, given, c.mem.patch, m.out.doc)]
    /\ pos' = pos + 1
    /\ pc' = "returned"
    /\ UNCHANGED <<live, dirExists, backups, now, pre, nreq, live0, tool, prior>>

NextPatch == ApplyOperation

SpecPatch == InitPatch /\ [][NextPatch]_vars


(***************************************************************************)
(* Vocabulary of the properties.                                           *)
(***************************************************************************)
Finished == pc = "idle" /\ c.kind # "none"
Succeeded == Finished /\ c.out.ok
Failed == Finished /\ ~c.out.ok
DiskNow == Disk(live, dirExists, backups)

\* a file holding a whole document the schema accepts
ValidFile(f) == f.kind = "text" /\ SiteSchema(f.doc)
\* the names in .backups
Existing(disk) == IF disk.dir THEN DOMAIN disk.backups ELSE {}
\* the backup with the latest stamp, by the clock reading the stamp encodes
TimesOf(disk) == {t \in Times : BackupName("site.json", Stamp(t)) \in Existing(disk)}
Latest(S) == CHOOSE t \in S : \A u \in S : u <= t
NewestBackup(disk) == BackupName("site.json", Stamp(Latest(TimesOf(disk))))


(***************************************************************************)
(* C1.  Every successful apply_update, from any reachable disk, leaves     *)
(* exactly one new file in .backups, holding the live document as it was   *)
(* before the call, and leaves the live file holding the patched,          *)
(* schema-valid document.                                                  *)
(***************************************************************************)
C1_OneNewBackupPerUpdate ==
    (Succeeded /\ c.kind = "update") =>
        /\ \E n \in Existing(DiskNow) \ Existing(pre) :
              /\ Existing(DiskNow) \ Existing(pre) = {n}
              /\ backups[n] = read_text(pre.live)
        /\ live = Dumps(_apply_operation("site.json", c.operation,
                                         pre.live.doc, c.content).doc)
        /\ ValidFile(live)

(***************************************************************************)
(* C2.  A request that fails leaves the disk exactly as it was before the  *)
(* request: the live file, the backup files and the backups directory.     *)
(***************************************************************************)
C2_FailureLeavesDiskUnchanged ==
    Failed => DiskNow = pre

\* an update whose patched document the schema rejects, with backups on disk
C2_Witness ==
    /\ Failed
    /\ c.kind = "update"
    /\ c.out.exc = "ValidationError"
    /\ c.doc # JNull
    /\ Existing(pre) # {}


(***************************************************************************)
(* C3.  From a schema-valid live document, whatever requests are made,     *)
(* the live document between requests is schema-valid, and no write of     *)
(* the live file is begun with a document the schema rejects.              *)
(***************************************************************************)
C3_LiveStaysValid ==
    /\ (pc = "idle" /\ ValidFile(live0)) => ValidFile(live)
    /\ pc \in {"live_open", "live_close"} => SiteSchema(c.doc)

\* two requests made, the second a success, and the live document changed
C3_Witness ==
    /\ Succeeded
    /\ ValidFile(live0)
    /\ nreq >= 2
    /\ live.doc # live0.doc

(***************************************************************************)
(* C4.  The live file is untouched until the backup of its content is      *)
(* completely written; so wherever the process stops, the document the     *)
(* request found is the live file's content or the content of the backup   *)
(* the request wrote.                                                      *)
(***************************************************************************)
C4_BackupBeforeWrite ==
    /\ pc \in {"mkdir", "backup_open", "backup_close"} => live = pre.live
    /\ c.kind # "none" =>
          \/ live = pre.live
          \/ /\ c.saved \in Existing(DiskNow)
             /\ backups[c.saved] = read_text(pre.live)

\* a crash inside the write of the live file: only the backup holds the document
C4_Witness ==
    /\ pc = "crashed"
    /\ live # pre.live
    /\ c.saved \in Existing(DiskNow)
    /\ backups[c.saved] = read_text(pre.live)

(***************************************************************************)
(* C5.  Backups are immutable: a backup file that exists when a request    *)
(* begins is still there, with the same content, at every later point;     *)
(* and a successful request wrote its backup under a name not used before. *)
(***************************************************************************)
C5_BackupsImmutable ==
    /\ \A n \in Existing(pre) : n \in Existing(DiskNow) /\ backups[n] = pre.backups[n]
    /\ Succeeded => c.saved \notin Existing(pre)

(***************************************************************************)
(* C6.  The write of the live file is atomic: at every point of a request  *)
(* (and after a crash) the live file holds the whole document the request  *)
(* found or the whole document the request writes.                         *)
(***************************************************************************)
C6_AtomicLiveWrite ==
    c.kind # "none" => (live = pre.live \/ live = Dumps(c.doc))

(***************************************************************************)
(* C7.  A successful restore_backup leaves the live document equal to the  *)
(* document the selected backup held when the request began (the named     *)
(* backup, or the newest when none is named), and leaves a backup holding  *)
(* the live document as it was before the restore.                         *)
(***************************************************************************)
C7_RestoreSelectedBackup ==
    (Succeeded /\ c.kind = "restore") =>
        LET sel == IF c.backup.given THEN c.backup.name ELSE NewestBackup(pre)
        IN  /\ sel \in Existing(pre)
            /\ live.kind = "text"
            /\ live.doc = pre.backups[sel].doc
            /\ c.saved \in Existing(DiskNow)
            /\ backups[c.saved] = read_text(pre.live)

\* no name given, two backups to choose from, and the live document changed
C7_Witness ==
    /\ Succeeded
    /\ c.kind = "restore"
    /\ ~c.backup.given
    /\ Cardinality(Existing(pre)) >= 2
    /\ live.doc # pre.live.doc

(***************************************************************************)
(* C8.  restore_backup with a backup name that has a directory component,  *)
(* or that does not begin with "site.json." and end with ".bak", fails     *)
(* with the name's validation error before any path is resolved and any    *)
(* disk access made, whatever is on disk.                                  *)
(***************************************************************************)
BadName(n) ==
    \/ "/" \in SeqRange(n)
    \/ ~(StartsWith(n, <<"site.json", ".">>) /\ EndsWith(n, <<".", "bak">>))

NameErrors == {"backup must be a filename, not a path",
               "backup filename does not match target file"}

C8_BadNameRejectedFirst ==
    (Finished /\ c.kind = "restore" /\ c.backup.given /\ BadName(c.backup.name)) =>
        /\ ~c.out.ok
        /\ c.out.msg \in NameErrors
        /\ c.io = << >>

(***************************************************************************)
(* C9.  apply_update rejects, before any disk access, every payload that   *)
(* is not an object, has a key other than file/operation/content, names a  *)
(* file other than site.json, has an operation outside                     *)
(* {replace, append, delete}, or whose content is not an object.           *)
(***************************************************************************)
BadShape(p) ==
    \/ ~IsDict(p)
    \/ ~(DOMAIN p.v \subseteq AllowedKeys)
    \/ Get(p, "file") # JStr("site.json")
    \/ Get(p, "operation") \notin {JStr(o) : o \in Operations}
    \/ ~IsDict(Get(p, "content"))

C9_BadPayloadRejectedFirst ==
    (Finished /\ c.kind = "update" /\ BadShape(c.payload)) =>
        /\ ~c.out.ok
        /\ c.io = << >>
        /\ DiskNow = pre

\* a payload with a fourth key, refused with nothing read
C9_Witness ==
    /\ Failed
    /\ c.kind = "update"
    /\ IsDict(c.payload)
    /\ ~(DOMAIN c.payload.v \subseteq AllowedKeys)
    /\ c.io = << >>
    /\ pre.live.kind = "text"

(***************************************************************************)
(* C10.  restore_backup fails with "No backups found" exactly when no      *)
(* backup of the file exists, and with "backup not found" when a           *)
(* well-formed backup name is given that is not among the existing         *)
(* backups; in both cases no backup is created and the live file is not    *)
(* written.                                                                *)
(***************************************************************************)
BackupErrors == {"No backups found", "backup not found"}

C10_BackupErrors ==
    (Finished /\ c.kind = "restore") =>
        /\ (c.out.msg = "No backups found") <=> (Existing(pre) = {})
        /\ (c.backup.given /\ ~BadName(c.backup.name)
                           /\ c.backup.name \notin Existing(pre))
              => c.out.msg = "backup not found"
        /\ c.out.msg \in BackupErrors => (DiskNow = pre /\ "write" \notin SeqRange(c.io))

(***************************************************************************)
(* C10, amended.  When the content file exists, restore_backup fails with  *)
(* "No backups found" exactly when no backup of the file exists; when the  *)
(* content file and at least one backup exist, it fails with "backup not   *)
(* found" when a well-formed backup name is given that is not among the    *)
(* existing backups; in both cases no backup is created and the live file  *)
(* is not written.                                                         *)
(***************************************************************************)
C10_BackupErrorsWhenFileExists ==
    (Finished /\ c.kind = "restore" /\ pre.live.kind # "absent") =>
        /\ (c.out.msg = "No backups found") <=> (Existing(pre) = {})
        /\ (c.backup.given /\ ~BadName(c.backup.name)
                           /\ c.backup.name \notin Existing(pre)
                           /\ Existing(pre) # {})
              => c.out.msg = "backup not found"
        /\ c.out.msg \in BackupErrors => (DiskNow = pre /\ "write" \notin SeqRange(c.io))

\* a well-formed name that no backup bears, with backups on disk
C10_Witness ==
    /\ Failed
    /\ c.kind = "restore"
    /\ c.out.msg = "backup not found"
    /\ Existing(pre) # {}
    /\ ~BadName(c.backup.name)

(***************************************************************************)
(* C11.  list_backups returns the names of all the backups of site.json,   *)
(* each once, newest first by the clock reading its stamp encodes (which   *)
(* is the order of creation reversed), and the empty sequence when         *)
(* .backups does not exist; after a successful request its first element   *)
(* is the backup that request wrote.                                       *)
(***************************************************************************)
TimeOf(n) == CHOOSE t \in Times : BackupName("site.json", Stamp(t)) = n

C11_NewestFirst ==
    LET names == list_backups("site.json", DiskNow)
    IN  /\ ~dirExists => names = << >>
        /\ SeqRange(names) = Existing(DiskNow)
        /\ Len(names) = Cardinality(Existing(DiskNow))
        /\ \A i, j \in 1..Len(names) : i < j => TimeOf(names[i]) > TimeOf(names[j])
        /\ Succeeded => (names # << >> /\ names[1] = c.saved)

\* three backups, the last written by the request that just succeeded, its
\* stamp one digit pattern further than the one before
C11_Witness ==
    /\ Succeeded
    /\ Len(list_backups("site.json", DiskNow)) >= 3
    /\ c.saved = BackupName("site.json", Stamp(Epoch + 1))
    /\ BackupName("site.json", Stamp(Epoch)) \in Existing(DiskNow)

(***************************************************************************)
(* C12.  Append monotonicity.  After a successful append, every array the  *)
(* patch touches (bio.summary, bio.highlights, services.services,          *)
(* projects.projects) is as long as the array before plus the array given, *)
(* begins with the entries before in their order and ends with the         *)
(* entries given in their order, repeated entries included.                *)
(***************************************************************************)
Called(operation) == pc = "returned" /\ c.operation = operation
PatchSection == c.content.v["section"].v
PatchDataOf == c.content.v["data"]

\* the array under doc[section][key], empty when there is none
ArrayAt(doc, section, key) ==
    IF Has(doc, section) /\ Has(doc.v[section], key) THEN doc.v[section].v[key].v ELSE << >>

\* the array keys an append to the section writes
AppendedKeys(section, data) ==
    IF section = "bio" THEN {"summary", "highlights"} \cap DOMAIN data.v
    ELSE IF section \in {"services", "projects"} THEN {section}
    ELSE {}

IsAppendOf(result, existing, new) ==
    /\ Len(result) = Len(existing) + Len(new)
    /\ SubSeq(result, 1, Len(existing)) = existing
    /\ SubSeq(result, Len(existing) + 1, Len(result)) = new

C12_AppendMonotone ==
    (Called("append") /\ c.out.ok) =>
        \A key \in AppendedKeys(PatchSection, PatchDataOf) :
            IsAppendOf(ArrayAt(c.doc, PatchSection, key),
                       ArrayAt(c.current, PatchSection, key),
                       PatchDataOf.v[key].v)

\* entries appended to a filled services array that holds one of them already
C12_Witness ==
    /\ Called("append")
    /\ c.out.ok
    /\ PatchSection = "services"
    /\ ArrayAt(c.current, "services", "services") # << >>
    /\ \E i \in 1..Len(PatchDataOf.v["services"].v) :
          PatchDataOf.v["services"].v[i] \in SeqRange(ArrayAt(c.current, "services", "services"))

(***************************************************************************)
(* C13.  A successful delete on services or projects leaves the section's  *)
(* array holding, in their order, exactly the entries before that are not  *)
(* objects with a name in the target set (so entries without a name        *)
(* stay); applied again to its own result it changes nothing.              *)
(***************************************************************************)
\* the target set of a delete: the name, or else the names
TargetSet(data) ==
    IF Has(data, "name") /\ IsStrV(data.v["name"]) THEN {data.v["name"]}
    ELSE IF Has(data, "names") /\ IsList(data.v["names"]) THEN SeqRange(data.v["names"].v)
    ELSE {}

Deleted(sections) == Called("delete") /\ c.out.ok /\ PatchSection \in sections

C13_DeleteExactlyNamed ==
    Deleted({"services", "projects"}) =>
        LET Stays(it) == ~(IsDict(it) /\ Has(it, "name")
                                      /\ it.v["name"] \in TargetSet(PatchDataOf))
        IN  /\ ArrayAt(c.doc, PatchSection, PatchSection)
                 = SelectSeq(ArrayAt(c.current, PatchSection, PatchSection), Stays)
            /\ pos >= 2 => c.doc = c.current

\* the second of two deletes that found a name twice, beside an entry without
\* a name and an entry that is the bare name
C13_Witness ==
    /\ Deleted({"services"})
    /\ pos = 2
    /\ Len(ArrayAt(c.doc, "services", "services")) + 2
           = Len(ArrayAt(c.payload, "services", "services"))
    /\ {Untitled, JStr("A")} \subseteq SeqRange(ArrayAt(c.doc, "services", "services"))

(***************************************************************************)
(* C14.  A successful delete on contact leaves every key of the patch      *)
(* data in contact with the empty string as its value, whatever value the  *)
(* patch gave it, and every other key of contact with the value it had.    *)
(***************************************************************************)
ContactOf(doc) == IF Has(doc, "contact") THEN doc.v["contact"].v ELSE << >>

C14_DeleteContactBlanks ==
    Deleted({"contact"}) =>
        LET before == ContactOf(c.current)
            after == ContactOf(c.doc)
            given == DOMAIN PatchDataOf.v
        IN  /\ DOMAIN after = DOMAIN before \cup given
            /\ \A k \in given : after[k] = JStr("")
            /\ \A k \in DOMAIN before \ given : after[k] = before[k]

\* a key blanked that the patch gave as null, a key kept, a key the contact
\* did not have
C14_Witness ==
    /\ Deleted({"contact"})
    /\ pos = 1
    /\ \E k \in DOMAIN PatchDataOf.v :
          ~IsStrV(PatchDataOf.v[k]) /\ k \in DOMAIN ContactOf(c.current)
                                    /\ ContactOf(c.current)[k] # JStr("")
    /\ DOMAIN PatchDataOf.v \ DOMAIN ContactOf(c.current) # {}
    /\ \E k \in DOMAIN ContactOf(c.current) \ DOMAIN PatchDataOf.v :
          ContactOf(c.doc)[k] # JStr("")

(***************************************************************************)
(* C15.  Every append or delete whose patch has a section outside          *)
(* {bio, services, projects, contact}, data that is not an object, or a    *)
(* recognized data field of the wrong type (a bio name, title or location  *)
(* or an intro that is not a string; a summary, highlights, services or    *)
(* projects that is not an array; a name that is not a string or names     *)
(* that is not an array of strings) is refused with the patch validation   *)
(* error.                                                                  *)
(***************************************************************************)
IsStrings(x) == IsList(x) /\ \A i \in 1..Len(x.v) : IsStrV(x.v[i])

\* the recognized fields of the data of a patch, and whether each has its type
WrongField(operation, section, data) ==
    LET wrong(key, Right(_)) == Has(data, key) /\ ~Right(data.v[key])
    IN  CASE operation = "append" /\ section = "bio" ->
                \/ \E key \in {"summary", "highlights"} : wrong(key, IsList)
                \/ \E key \in {"name", "title", "location"} : wrong(key, IsStrV)
          [] operation = "append" /\ section \in {"services", "projects"} ->
                wrong("intro", IsStrV) \/ wrong(section, IsList)
          [] operation = "append" /\ section = "contact" ->
                \E key \in DOMAIN data.v : wrong(key, IsStrV)
          [] operation = "delete" /\ section = "bio" ->
                \E key \in {"summary", "highlights"} : wrong(key, IsStrings)
          [] operation = "delete" /\ section \in {"services", "projects"} ->
                wrong("name", IsStrV) \/ wrong("names", IsStrings)
          [] OTHER -> FALSE

BadPatch(operation, patch) ==
    \/ Get(patch, "section") \notin {JStr(sec) : sec \in Sections}
    \/ ~IsDict(Get(patch, "data"))
    \/ WrongField(operation, Get(patch, "section").v, Get(patch, "data"))

C15_BadPatchRejected ==
    (pc = "returned" /\ c.operation \in {"append", "delete"}
                     /\ BadPatch(c.operation, c.content)) =>
        (~c.out.ok /\ c.out.exc = "ContentUpdateError")

(***************************************************************************)
(* C16.  The patch engine never changes its input: whether                 *)
(* _apply_operation returns or raises, the document the caller gave,       *)
(* nested objects and arrays included, is afterwards what it was before.   *)
(***************************************************************************)
\* the caller's document, read through the caller's reference after the call
GivenAfter == Load(c.mem.h, c.mem.current)

C16_InputNotMutated ==
    pc = "returned" => GivenAfter = c.current

\* a second call in a row that returned a document differing, in a nested
\* array, from the one it was given
C16_Witness ==
    /\ pc = "returned"
    /\ pos = 2
    /\ c.out.ok
    /\ c.operation = "append"
    /\ Get(c.doc, "services") # Get(c.current, "services")

(***************************************************************************)
(* C17.  A delete on services or projects is accepted when its data        *)
(* carries exactly one of the two target forms, name (a string) or names   *)
(* (an array of strings), and is refused with the patch validation error   *)
(* when it carries neither.                                                *)
(***************************************************************************)
CarriesName(data) == Has(data, "name") /\ IsStrV(data.v["name"])
CarriesNames(data) == Has(data, "names") /\ IsStrings(data.v["names"])

\* a returned or refused delete on services or projects with an object as data
DeleteOnBlock ==
    /\ Called("delete")
    /\ Get(c.content, "section") \in {JStr("services"), JStr("projects")}
    /\ IsDict(Get(c.content, "data"))

C17_DeleteTargetForms ==
    DeleteOnBlock =>
        /\ (CarriesName(PatchDataOf) /\ ~CarriesNames(PatchDataOf)) => c.out.ok
        /\ (CarriesNames(PatchDataOf) /\ ~CarriesName(PatchDataOf)) => c.out.ok
        /\ (~CarriesName(PatchDataOf) /\ ~CarriesNames(PatchDataOf)) =>
              /\ ~c.out.ok
              /\ c.out.exc = "ContentUpdateError"
              /\ c.out.msg = "delete requires data.name (string) or data.names (string[])"

\* names given with a number among them, and no name: neither form, refused
C17_Witness ==
    /\ DeleteOnBlock
    /\ ~c.out.ok
    /\ Has(PatchDataOf, "names")
    /\ IsList(PatchDataOf.v["names"])
    /\ ~Has(PatchDataOf, "name")

(***************************************************************************)
(* C18.  Replace round trip.  After a successful apply_update with         *)
(* operation replace and content D', the live file holds exactly D',       *)
(* whatever document it held before.                                       *)
(***************************************************************************)
Replaced == Succeeded /\ c.kind = "update" /\ c.operation = "replace"

C18_ReplaceRoundTrip ==
    Replaced => (live.kind = "text" /\ live.doc = Get(c.payload, "content"))

\* a replace by a document other than the one the live file held
C18_Witness ==
    /\ Replaced
    /\ pre.live.doc # Get(c.payload, "content")
    /\ nreq = 2

(***************************************************************************)
(* C19.  update_website_content and rollback_website_content never raise:  *)
(* a failure of the update or the restore, and a refused argument, is      *)
(* returned as a value with status "error" and a message, and a failure    *)
(* of the git step as a value with status "error" and a message under the  *)
(* result's key git.                                                       *)
(***************************************************************************)
Tools == {"update_website_content", "rollback_website_content"}
ToolReturned == tool.phase = "returned" /\ tool.caller \in Tools
IsError(value) == value.status = "error" /\ value.error # ""

C19_ToolsReturnErrors ==
    ToolReturned =>
        /\ ~tool.reply.raised
        /\ (~tool.called \/ ~c.out.ok) => IsError(tool.reply.value)
        /\ tool.git = "failed" =>
              ("git" \in DOMAIN tool.reply.value /\ IsError(tool.reply.value.git))

\* an update whose patched document the schema rejects: jsonschema's
\* ValidationError, not a ContentUpdateError, comes back as an error value
C19_Witness ==
    /\ ToolReturned
    /\ tool.caller = "update_website_content"
    /\ tool.called
    /\ c.out.exc = "ValidationError"
    /\ tool.auto

(***************************************************************************)
(* C20.  When the git step fails after a successful update or restore,     *)
(* the live file keeps the new document and the backup of the old one      *)
(* stays, and the caller reports the successful result together with the   *)
(* git error: the tools as an "error" value under the key git of the "ok"  *)
(* result, the chat as an error line after the printed result.             *)
(***************************************************************************)
GitFailed == tool.phase = "returned" /\ tool.git = "failed"

C20_GitFailureKeepsWrite ==
    GitFailed =>
        /\ live = Dumps(c.doc)
        /\ c.saved \in Existing(DiskNow)
        /\ backups[c.saved] = read_text(pre.live)
        /\ tool.caller \in Tools =>
              /\ tool.reply.value.status = "ok"
              /\ IF c.kind = "update" THEN tool.reply.value.backup = c.saved
                 ELSE tool.reply.value.backup_of_current = c.saved
              /\ tool.reply.value.git = ErrorValue("git push failed")
        /\ tool.caller = "chat" =>
              /\ Len(tool.reply.printed) = 2
              /\ tool.reply.printed[1] = Line("result", Result(c))
              /\ tool.reply.printed[1].value.status = "ok"
              /\ tool.reply.printed[2] = Line("error", ErrorValue("git push failed"))

\* a rollback that changed the live document and whose push then failed
C20_Witness ==
    /\ GitFailed
    /\ tool.caller = "rollback_website_content"
    /\ live.doc # pre.live.doc
    /\ Cardinality(Existing(DiskNow)) >= 2


(***************************************************************************)
(* C21.  Restore undoes the last write.  A restore_backup without a backup *)
(* name made right after a successful apply_update succeeds and leaves the *)
(* live document as it was before the update.  Two restore_backup calls    *)
(* without a backup name in a row leave the live document as it was        *)
(* before the first of them; as stated, whatever that document was.        *)
(***************************************************************************)
\* the same document, or both files missing
SameDocument(f, g) == f.kind = g.kind /\ f.doc = g.doc

RestoredNewest == Finished /\ c.kind = "restore" /\ ~c.backup.given
AfterUpdate == prior.kind = "update" /\ prior.ok
AfterRestoreNewest == prior.kind = "restore" /\ ~prior.given

Patched == pc = "returned" /\ c.operation \in {"append", "delete"} /\ c.out.ok

\* updated.get(section, {})
SectionOf(doc, section) == GetOr(doc, section, EmptyObj)

OtherSectionsKept ==
    \A k \in DOMAIN c.current.v \ {PatchSection} :
        Has(c.doc, k) /\ c.doc.v[k] = c.current.v[k]

\* the fields of the section that are not among `named` are as they were
FieldsKept(named) ==
    LET before == SectionOf(c.current, PatchSection)
        after == SectionOf(c.doc, PatchSection)
    IN  /\ IsDict(after)
        /\ \A key \in (DOMAIN before.v \cup DOMAIN after.v) \ named :
              /\ Has(before, key)
              /\ Has(after, key)
              /\ after.v[key] = before.v[key]

C22_OnlyNamedFieldsChange ==
    Patched => (OtherSectionsKept /\ FieldsKept(DOMAIN PatchDataOf.v))

(***************************************************************************)
(* C22, amended.  The same, a delete on services or projects being         *)
(* allowed to change the section's array: its data names entries of the    *)
(* array (name, names), not the array, and the array is what it rewrites.  *)
(***************************************************************************)
\* the array a delete on services or projects filters
FilteredArray ==
    IF c.operation = "delete" /\ PatchSection \in {"services", "projects"}
    THEN {PatchSection}
    ELSE {}

C22_OnlyTargetChanges ==
    Patched => (OtherSectionsKept /\ FieldsKept(DOMAIN PatchDataOf.v \cup FilteredArray))

\* a delete that took entries out of the services array and left the intro
\* beside it, and the three other sections, as they were
C22_Witness ==
    /\ Deleted({"services"})
    /\ pos = 1
    /\ "services" \notin DOMAIN PatchDataOf.v
    /\ ArrayAt(c.doc, "services", "services") # ArrayAt(c.current, "services", "services")
    /\ Has(SectionOf(c.current, "services"), "intro")
    /\ DOMAIN c.current.v = Sections


(***************************************************************************)
(* C23.  A delete on services or projects whose data carries both a        *)
(* string name and a names array succeeds, and removes the entries named   *)
(* by name and no others: an entry whose name is only among names stays.   *)
(***************************************************************************)
CarriesBoth ==
    /\ DeleteOnBlock
    /\ Has(PatchDataOf, "name")
    /\ IsStrV(PatchDataOf.v["name"])
    /\ Has(PatchDataOf, "names")
    /\ IsList(PatchDataOf.v["names"])

\* an object with this name
IsNamed(it, name) == IsDict(it) /\ Has(it, "name") /\ it.v["name"] = name

C23_NameWinsOverNames ==
    CarriesBoth =>
        LET name == PatchDataOf.v["name"]
            ByNameOnly(it) == ~IsNamed(it, name)
        IN  /\ c.out.ok
            /\ ArrayAt(c.doc, PatchSection, PatchSection)
                 = SelectSeq(ArrayAt(c.current, PatchSection, PatchSection), ByNameOnly)

\* both forms given to a services array that holds entries of either name:
\* the entries named by name are gone, the entry named in names is still there
C23_Witness ==
    /\ CarriesBoth
    /\ c.out.ok
    /\ pos = 1
    /\ LET name == PatchDataOf.v["name"]
           before == ArrayAt(c.current, PatchSection, PatchSection)
           after == ArrayAt(c.doc, PatchSection, PatchSection)
       IN  /\ \E i \in 1..Len(before) : IsNamed(before[i], name)
           /\ \E n \in SeqRange(PatchDataOf.v["names"].v) \ {name} :
                 /\ \E i \in 1..Len(before) : IsNamed(before[i], n)
                 /\ \E i \in 1..Len(after) : IsNamed(after[i], n)
           /\ Len(after) < Len(before)
=============================================================================
